---- MODULE Spec2Model ----
(***************************************************************************)
(* A model of josepy/util.py: the comparable wrappers (ComparableX509,     *)
(* ComparableKey and its three family subclasses) and the two immutable    *)
(* mappings (ImmutableMap, frozendict).                                    *)
(*                                                                         *)
(* The state is a heap of Python objects (objs) and the outcome of the     *)
(* last call (last): the exception it raised, if any, the exception's      *)
(* message and the value it returned.  Every method of the source is an    *)
(* operator computing the call's outcome; every action is one call.        *)
(***************************************************************************)
EXTENDS Integers, Sequences, FiniteSets, TLC

VARIABLES objs, last

vars == <<objs, last>>

\* The number of objects the heap may hold.
MaxObjs == 2

\* The values stored in record fields and in mappings.
Val == {"v1", "v2"}

\* The names used as keyword arguments, keys and attribute names.
FieldNames == {"typ", "alg", "kid"}

\* The keys of the caller's dicts and of frozendict keyword bindings.
DictKeys == {"typ", "alg"}

Range(s) == {s[i] : i \in DOMAIN s}

-----------------------------------------------------------------------------
(* Outcomes of a call.                                                     *)

\* The call returned v.
Ret(v) == [exc |-> "none", msg |-> <<>>, ret |-> v]

\* The call raised exception e; m is the message, as the sequence of its
\* literal fragments and the values formatted into it.
Raise(e, m) == [exc |-> e, msg |-> m, ret |-> "n/a"]

\* Python's bool, and the NotImplemented singleton, as a comparison returns them.
PyBool(b) == IF b THEN "True" ELSE "False"

-----------------------------------------------------------------------------
(* Keyword arguments: a sequence of <<name, value>> pairs with distinct    *)
(* names, in the order the caller wrote them.                              *)

\* Python's order of the key strings, as sorted() uses it.
KeyRank(k) ==
    CASE k = "alg" -> 1
      [] k = "kid" -> 2
      [] k = "typ" -> 3

\* The name lists the callers of this model write: distinct names of N, in
\* sorted order.
SeqsNoDup(N) ==
    {s \in UNION {[1..n -> N] : n \in 0..Cardinality(N)} :
        \A i, j \in DOMAIN s : i < j => KeyRank(s[i]) < KeyRank(s[j])}

\* The keyword arguments over the names N, with every choice of values.
KwargsOver(N) ==
    UNION {{[i \in DOMAIN ns |-> <<ns[i], vs[i]>>] : vs \in [DOMAIN ns -> Val]} :
             ns \in SeqsNoDup(N)}

RecordKwargs == KwargsOver(FieldNames)

DictKwargs == KwargsOver(DictKeys)

\* set(kwargs)
KwNames(kw) == {kw[i][1] : i \in DOMAIN kw}

\* the names of kwargs, in order: what ', '.join(kwargs) formats
KwNameSeq(kw) == [i \in DOMAIN kw |-> kw[i][1]]

\* kwargs[name]
KwGet(kw, name) == kw[CHOOSE i \in DOMAIN kw : kw[i][1] = name][2]

\* dict(kwargs)
KwDict(kw) == [n \in KwNames(kw) |-> KwGet(kw, n)]

\* The dicts a caller may hold.
Dicts == UNION {[D -> Val] : D \in SUBSET DictKeys}

-----------------------------------------------------------------------------
(* ImmutableMap                                                            *)

\* The record types: subclasses of ImmutableMap, each declaring __slots__.
RecordTypes == {"Header", "Protected"}

Slots(cls) ==
    CASE cls = "Header" -> <<"typ", "alg">>
      [] cls = "Protected" -> <<"alg", "typ">>

\* Names that getattr resolves on the class of a record rather than on the
\* instance: its methods.
ClassAttrs == {"update", "keys"}

\* The exception ImmutableMap.__init__ raises on a wrong set of names.
ImInitError(cls, kw) ==
    Raise("TypeError",
          <<"__init__() takes exactly the following arguments: ">>
            \o Slots(cls) \o <<" (">>
            \o (IF kw = <<>> THEN <<"none">> ELSE KwNameSeq(kw))
            \o <<" given)">>)

\* A check that only misses nothing: names beyond the schema pass.
ImInitRejectsMissingOnly(cls, kw) == ~(Range(Slots(cls)) \subseteq KwNames(kw))

\* set(kwargs) != set(self.__slots__)
ImInitRejects(cls, kw) == KwNames(kw) # Range(Slots(cls))

\* ImmutableMap.__init__(**kwargs): the instance, or TypeError.
ImInit(cls, kw) ==
    IF ImInitRejects(cls, kw)
    THEN ImInitError(cls, kw)
    ELSE Ret([kind |-> "record", cls |-> cls,
              vals |-> [s \in Range(Slots(cls)) |-> KwGet(kw, s)]])

\* getattr(self, name) on a record: a slot's value, a bound method of the
\* class, or AttributeError.
ImGetattr(self, name) ==
    IF name \in Range(Slots(self.cls)) THEN Ret(self.vals[name])
    ELSE IF name \in ClassAttrs THEN Ret("<bound method>")
    ELSE Raise("AttributeError",
               <<"'", self.cls, "' object has no attribute '", name, "'">>)

\* ImmutableMap.__getitem__(key)
ImGetItem(self, key) ==
    LET r == ImGetattr(self, key)
    IN  IF r.exc = "AttributeError" THEN Raise("KeyError", <<key>>) ELSE r

\* ImmutableMap.__iter__()
ImIter(self) == Slots(self.cls)

\* ImmutableMap.__len__()
ImLen(self) == Len(Slots(self.cls))

\* The merge the other way round, {**kwargs, **self}: the receiver's values win.
ImUpdateItemsReversed(self, kw) ==
    LET own == ImIter(self)
        Extra(p) == p[1] \notin Range(own)
    IN  SelectSeq(kw, Extra)
        \o [i \in DOMAIN own |-> <<own[i], ImGetItem(self, own[i]).ret>>]

\* {**self, **kwargs}: the receiver's items in iteration order, each value
\* replaced by the one kwargs gives, then the names only kwargs has.
ImUpdateItems(self, kw) ==
    LET own == ImIter(self)
        Extra(p) == p[1] \notin Range(own)
    IN  [i \in DOMAIN own |->
            <<own[i], IF own[i] \in KwNames(kw) THEN KwGet(kw, own[i])
                      ELSE ImGetItem(self, own[i]).ret>>]
        \o SelectSeq(kw, Extra)

\* ImmutableMap.update(**kwargs): the new instance, or TypeError.
ImUpdate(self, kw) == ImInit(self.cls, ImUpdateItems(self, kw))

\* hash(tup), for a tuple of the given shape: equal exactly for equal tuples,
\* and tuples of different shape are different tuples.
HashOf(shape, tup) == shape :> tup

\* ImmutableMap.__hash__()
ImHash(self) ==
    LET s == Slots(self.cls)
    IN  Ret(HashOf("values", [i \in DOMAIN s |-> self.vals[s[i]]]))

\* An assignment that goes through, as object.__setattr__ would do it.
ImSetattrStores(self, name, value) ==
    [out |-> Ret("None"),
     obj |-> [self EXCEPT !.vals =
                [f \in DOMAIN @ \cup {name} |-> IF f = name THEN value ELSE @[f]]]]

\* ImmutableMap.__setattr__(name, value): the outcome, and the receiver as
\* the call leaves it.
ImSetattr(self, name, value) ==
    [out |-> Raise("AttributeError", <<"can't set attribute">>), obj |-> self]

\* ImmutableMap.__repr__()
ImRepr(self) ==
    LET s == ImIter(self)
    IN  Ret(<<self.cls>> \o [i \in DOMAIN s |-> <<s[i], self.vals[s[i]]>>])

-----------------------------------------------------------------------------
(* frozendict                                                              *)

\* tuple(sorted(keys))
RECURSIVE Sorted(_)
Sorted(S) ==
    IF S = {} THEN <<>>
    ELSE LET m == CHOOSE x \in S : \A y \in S : KeyRank(x) <= KeyRank(y)
         IN  <<m>> \o Sorted(S \ {m})

\* isinstance(a, Mapping), for a positional argument a: the position of a
\* heap object, or 0 for a value that is no object of the heap (an int).
IsMapping(a, heap) ==
    a \in DOMAIN heap /\ heap[a].kind \in {"dict", "record", "frozendict"}

\* d[key] on a dict
DictGetItem(d, key) ==
    IF key \in DOMAIN d THEN Ret(d[key]) ELSE Raise("KeyError", <<key>>)

\* m[key] and len(m) on the mapping at position j, by its class
RECURSIVE MapSubscript(_, _, _)
RECURSIVE MapLen(_, _)

\* frozendict.__getitem__(key): self._items is a dict of its own, or the
\* mapping the caller passed
FdGetItem(self, key, heap) ==
    IF self.own THEN DictGetItem(self.items, key)
    ELSE MapSubscript(self.ref, key, heap)

\* frozendict.__len__()
FdLen(self, heap) ==
    IF self.own THEN Cardinality(DOMAIN self.items) ELSE MapLen(self.ref, heap)

MapSubscript(j, key, heap) ==
    CASE heap[j].kind = "dict" -> DictGetItem(heap[j].items, key)
      [] heap[j].kind = "record" -> ImGetItem(heap[j], key)
      [] heap[j].kind = "frozendict" -> FdGetItem(heap[j], key, heap)

MapLen(j, heap) ==
    CASE heap[j].kind = "dict" -> Cardinality(DOMAIN heap[j].items)
      [] heap[j].kind = "record" -> ImLen(heap[j])
      [] heap[j].kind = "frozendict" -> FdLen(heap[j], heap)

\* m.keys() for the mapping at position j: the keys it iterates
MapKeys(j, heap) ==
    CASE heap[j].kind = "dict" -> DOMAIN heap[j].items
      [] heap[j].kind = "record" -> Range(ImIter(heap[j]))
      [] heap[j].kind = "frozendict" -> Range(heap[j].keys)

\* kwargs and not args
FdFromKwargs(args, kw) == kw # <<>> /\ args = <<>>

\* len(args) == 1 and isinstance(args[0], Mapping)
FdFromMapping(args, kw, heap) == Len(args) = 1 /\ IsMapping(args[1], heap)

\* frozendict.__init__(*args, **kwargs): the instance, or TypeError.  _items
\* is dict(kwargs), a dict of its own (own), or the caller's object itself
\* (ref, its position).
FdInit(args, kw, heap) ==
    IF FdFromKwargs(args, kw)
    THEN Ret([kind |-> "frozendict", own |-> TRUE, items |-> KwDict(kw),
              ref |-> 0, keys |-> Sorted(KwNames(kw))])
    ELSE IF FdFromMapping(args, kw, heap)
    THEN Ret([kind |-> "frozendict", own |-> FALSE, items |-> <<>>,
              ref |-> args[1], keys |-> Sorted(MapKeys(args[1], heap))])
    ELSE Raise("TypeError", <<>>)

\* frozendict.__iter__()
FdIter(self) == self.keys

\* frozendict._sorted_items()
FdSortedItems(self, heap) ==
    LET ks == FdIter(self)
        Missing == {i \in DOMAIN ks : FdGetItem(self, ks[i], heap).exc # "none"}
    IN  IF Missing # {}
        THEN FdGetItem(self, ks[CHOOSE i \in Missing : \A j \in Missing : i <= j], heap)
        ELSE Ret([i \in DOMAIN ks |-> <<ks[i], FdGetItem(self, ks[i], heap).ret>>])

\* frozendict.__hash__()
FdHash(self, heap) ==
    LET r == FdSortedItems(self, heap)
    IN  IF r.exc # "none" THEN r ELSE Ret(HashOf("pairs", r.ret))

\* frozendict.__repr__()
FdRepr(self, heap) ==
    LET r == FdSortedItems(self, heap)
    IN  IF r.exc # "none" THEN r ELSE Ret(<<"frozendict">> \o r.ret)

\* frozendict.__setattr__(name, value)
FdSetattr(self, name, value) ==
    [out |-> Raise("AttributeError", <<"can't set attribute">>), obj |-> self]

-----------------------------------------------------------------------------
(* The cryptography and OpenSSL objects the wrappers hold.  A key object   *)
(* is [kind |-> "key", kcls, num]: its class and its numeric material (one *)
(* number stands for the whole tuple; a private key and the public key     *)
(* derived from it carry the same number).  num = 0 is an object built     *)
(* with no material.                                                       *)

KeyNums == {1, 2}

KeyClasses ==
    {"RSAPrivateKey", "RSAPublicKey",
     "EllipticCurvePrivateKey", "EllipticCurvePublicKey",
     "Ed25519PrivateKey", "Ed25519PublicKey"}

KeyObjects == [kind : {"key"}, kcls : KeyClasses, num : KeyNums]

\* The classes each wrapper class is documented to wrap.
WrapperClasses == {"ComparableRSAKey", "ComparableECKey", "ComparableOKPKey"}

Wraps(cls) ==
    CASE cls = "ComparableRSAKey" -> {"RSAPrivateKey", "RSAPublicKey"}
      [] cls = "ComparableECKey" ->
            {"EllipticCurvePrivateKey", "EllipticCurvePublicKey"}
      [] cls = "ComparableOKPKey" -> {"Ed25519PrivateKey", "Ed25519PublicKey"}

\* is_private(): the wrapped object is one of the private key classes.
IsPrivate(kcls) ==
    kcls \in {"RSAPrivateKey", "EllipticCurvePrivateKey", "Ed25519PrivateKey"}

\* The public key class public_key() of a private key class returns.
PublicClass(kcls) ==
    CASE kcls = "RSAPrivateKey" -> "RSAPublicKey"
      [] kcls = "EllipticCurvePrivateKey" -> "EllipticCurvePublicKey"
      [] kcls = "Ed25519PrivateKey" -> "Ed25519PublicKey"

\* hasattr(key, name), for the attributes the source asks for.  RSA and EC
\* keys have numbers; the OKP keys have neither numbers nor a curve or x.
KeyHasAttr(kcls, name) ==
    CASE name = "private_numbers" ->
            kcls \in {"RSAPrivateKey", "EllipticCurvePrivateKey"}
      [] name = "public_numbers" ->
            kcls \in {"RSAPublicKey", "EllipticCurvePublicKey"}
      [] name = "public_key" -> IsPrivate(kcls)
      [] OTHER -> FALSE

\* key.private_numbers() / key.public_numbers()
PrivateNumbers(key) == [private |-> key.num, public_numbers |-> [public |-> key.num]]

PublicNumbers(key) == [public |-> key.num]

\* key.public_key()
DerivedPublicKey(key) == [kind |-> "key", kcls |-> PublicClass(key.kcls), num |-> key.num]

\* public_numbers().public_key(backend): a public key rebuilt from its numbers
RebuiltPublicKey(key) == [kind |-> "key", kcls |-> key.kcls, num |-> PublicNumbers(key).public]

\* type(key)(): the key's class called with no arguments.  Depending on the
\* class it raises TypeError or builds an object with no material.
Instantiate(kcls) ==
    {Raise("TypeError", <<kcls, "()">>),
     Ret([kind |-> "key", kcls |-> kcls, num |-> 0])}

AttributeError(kcls, name) ==
    Raise("AttributeError", <<"'", kcls, "' object has no attribute '", name, "'">>)

\* An X509 certificate or certificate request: its class and its content.
X509Classes == {"X509", "X509Req"}

X509Objects == [kind : {"x509"}, xcls : X509Classes, der : KeyNums]

-----------------------------------------------------------------------------
(* ComparableX509                                                          *)

\* isinstance(other, cls), for the wrapper classes (none subclasses another).
IsInstance(o, cls) == o.kind \in {"keywrap", "x509wrap"} /\ o.cls = cls

\* ComparableX509.__init__(wrapped)
X509Init(wrapped) ==
    IF wrapped.kind = "x509" /\ wrapped.xcls \in X509Classes
    THEN Ret([kind |-> "x509wrap", cls |-> "ComparableX509", wrapped |-> wrapped])
    ELSE Raise("AssertionError", <<>>)

\* ComparableX509._dump(): the ASN.1 bytes of a certificate or of a request
X509Dump(self) ==
    IF self.wrapped.xcls = "X509"
    THEN <<"dump_certificate", self.wrapped.der>>
    ELSE <<"dump_certificate_request", self.wrapped.der>>

\* ComparableX509.__eq__(other)
X509Eq(self, other) ==
    IF ~IsInstance(other, self.cls) THEN Ret("NotImplemented")
    ELSE Ret(PyBool(X509Dump(self) = X509Dump(other)))

\* ComparableX509.__hash__()
X509Hash(self) == Ret(HashOf("x509", <<self.cls, X509Dump(self)>>))

-----------------------------------------------------------------------------
(* ComparableKey and ComparableRSAKey, ComparableECKey, ComparableOKPKey   *)

\* ComparableKey.__init__(wrapped)
KeyInit(cls, wrapped) == Ret([kind |-> "keywrap", cls |-> cls, wrapped |-> wrapped])

\* ComparableKey.__eq__(other)
KeyEq(self, other) ==
    IF ~IsInstance(other, self.cls) \/ self.wrapped.kcls # other.wrapped.kcls
    THEN Ret("NotImplemented")
    ELSE IF KeyHasAttr(self.wrapped.kcls, "private_numbers")
    THEN Ret(PyBool(PrivateNumbers(self.wrapped) = PrivateNumbers(other.wrapped)))
    ELSE IF KeyHasAttr(self.wrapped.kcls, "public_numbers")
    THEN Ret(PyBool(PublicNumbers(self.wrapped) = PublicNumbers(other.wrapped)))
    ELSE Ret("NotImplemented")

\* ComparableKey.public_key(), which ComparableRSAKey inherits
BasePublicKey(self) ==
    IF KeyHasAttr(self.wrapped.kcls, "public_key")
    THEN {KeyInit(self.cls, DerivedPublicKey(self.wrapped))}
    ELSE {AttributeError(self.wrapped.kcls, "public_key")}

\* ComparableECKey.public_key()
ECPublicKey(self) ==
    IF KeyHasAttr(self.wrapped.kcls, "public_key")
    THEN {KeyInit(self.cls, DerivedPublicKey(self.wrapped))}
    ELSE {KeyInit(self.cls, RebuiltPublicKey(self.wrapped))}

\* ComparableOKPKey.public_key()
OKPPublicKey(self) ==
    IF KeyHasAttr(self.wrapped.kcls, "public_key")
    THEN Instantiate(DerivedPublicKey(self.wrapped).kcls)
    ELSE {AttributeError(self.wrapped.kcls, "public_key")}

\* wrapper.public_key(): the outcomes the call may have
PublicKeyOutcomes(self) ==
    CASE self.cls = "ComparableRSAKey" -> BasePublicKey(self)
      [] self.cls = "ComparableECKey" -> ECPublicKey(self)
      [] self.cls = "ComparableOKPKey" -> OKPPublicKey(self)

\* ComparableRSAKey.__hash__()
RSAHash(self) ==
    IF self.wrapped.kcls = "RSAPrivateKey"
    THEN Ret(HashOf("rsa-private",
                    <<self.cls, PrivateNumbers(self.wrapped).private,
                      PrivateNumbers(self.wrapped).public_numbers.public>>))
    ELSE Ret(HashOf("rsa-public", <<self.cls, PublicNumbers(self.wrapped).public>>))

\* ComparableECKey.__hash__()
ECHash(self) ==
    IF self.wrapped.kcls = "EllipticCurvePrivateKey"
    THEN Ret(HashOf("ec-private",
                    <<self.cls, PrivateNumbers(self.wrapped).public_numbers.public,
                      PrivateNumbers(self.wrapped).private>>))
    ELSE Ret(HashOf("ec-public", <<self.cls, PublicNumbers(self.wrapped).public>>))

\* ComparableOKPKey.__hash__(): reads self._wrapped.curve
OKPHash(self) ==
    IF KeyHasAttr(self.wrapped.kcls, "curve")
    THEN Ret(HashOf("okp", <<self.cls, self.wrapped.num>>))
    ELSE AttributeError(self.wrapped.kcls, "curve")

KeyHash(self) ==
    CASE self.cls = "ComparableRSAKey" -> RSAHash(self)
      [] self.cls = "ComparableECKey" -> ECHash(self)
      [] self.cls = "ComparableOKPKey" -> OKPHash(self)

-----------------------------------------------------------------------------
(* Equality and hashing as Python dispatches them.                         *)

\* dict(m.items()) for a Mapping m: the keys it iterates, each looked up.
MappingItems(m, heap) ==
    CASE m.kind = "record" -> Ret([k \in Range(ImIter(m)) |-> ImGetItem(m, k).ret])
      [] m.kind = "dict" -> Ret(m.items)
      [] m.kind = "frozendict" ->
            LET r == FdSortedItems(m, heap)
            IN  IF r.exc # "none" THEN r
                ELSE Ret([k \in Range(FdIter(m)) |-> FdGetItem(m, k, heap).ret])

\* Mapping.__eq__(other), which ImmutableMap and frozendict inherit
MappingEq(self, other, heap) ==
    IF ~(other.kind \in {"dict", "record", "frozendict"}) THEN Ret("NotImplemented")
    ELSE LET a == MappingItems(self, heap)
             b == MappingItems(other, heap)
         IN  IF a.exc # "none" THEN a
             ELSE IF b.exc # "none" THEN b
             ELSE Ret(PyBool(a.ret = b.ret))

\* dict.__eq__(other)
DictEq(self, other) ==
    IF other.kind # "dict" THEN Ret("NotImplemented")
    ELSE Ret(PyBool(self.items = other.items))

\* self.__eq__(other), by the class of self; i and j are their identities
MethodEq(i, j, heap) ==
    LET self == heap[i]
        other == heap[j]
    IN  CASE self.kind \in {"record", "frozendict"} -> MappingEq(self, other, heap)
          [] self.kind = "dict" -> DictEq(self, other)
          [] self.kind = "keywrap" -> KeyEq(self, other)
          [] self.kind = "x509wrap" -> X509Eq(self, other)
          [] OTHER -> IF i = j THEN Ret("True") ELSE Ret("NotImplemented")

\* a == b: a.__eq__(b), then the reflected b.__eq__(a), then identity
PyEq(i, j, heap) ==
    LET r == MethodEq(i, j, heap)
    IN  IF r.exc # "none" \/ r.ret # "NotImplemented" THEN r
        ELSE LET q == MethodEq(j, i, heap)
             IN  IF q.exc # "none" \/ q.ret # "NotImplemented" THEN q
                 ELSE Ret(PyBool(i = j))

\* hash(a) for the values this layer builds
PyHash(i, heap) ==
    LET self == heap[i]
    IN  CASE self.kind = "record" -> ImHash(self)
          [] self.kind = "frozendict" -> FdHash(self, heap)
          [] self.kind = "keywrap" -> KeyHash(self)
          [] self.kind = "x509wrap" -> X509Hash(self)

\* The values this layer builds.
Built(heap) ==
    {i \in DOMAIN heap : heap[i].kind \in {"record", "frozendict", "keywrap", "x509wrap"}}

Records(heap) == {i \in DOMAIN heap : heap[i].kind = "record"}

Frozen(heap) == {i \in DOMAIN heap : heap[i].kind = "frozendict"}

CallerDicts(heap) == {i \in DOMAIN heap : heap[i].kind = "dict"}

KeyWrappers(heap) == {i \in DOMAIN heap : heap[i].kind = "keywrap"}

-----------------------------------------------------------------------------
(* The state machine.                                                      *)

\* The record of a call: the method, its outcome and, for the constructor
\* calls whose arguments the heap does not keep, the arguments.
Called(op, r) ==
    [op |-> op, args |-> <<>>, exc |-> r.exc, msg |-> r.msg,
     ret |-> IF r.exc = "none" THEN op :> r.ret ELSE "raised" :> r.exc]

\* The call recorded in l returned v.
Returned(l, v) == l.exc = "none" /\ l.ret[l.op] = v

\* A constructor's effect: the new object at the end of the heap and its
\* position returned, or the exception and no object.
Construct(op, args, r) ==
    /\ objs' = IF r.exc = "none" THEN Append(objs, r.ret) ELSE objs
    /\ last' = [Called(op, IF r.exc = "none" THEN Ret(Len(objs) + 1) ELSE r)
                 EXCEPT !.args = args]

Init ==
    /\ objs = <<>>
    /\ last = Called("none", Ret("None"))

\* cls(**kw), cls a record type
NewRecord(cls, kw) ==
    /\ Len(objs) < MaxObjs
    /\ Construct("ImmutableMap.__init__", <<cls, kw>>, ImInit(cls, kw))

\* objs[i].update(**kw)
Update(i, kw) ==
    /\ Len(objs) < MaxObjs
    /\ i \in Records(objs)
    /\ Construct("ImmutableMap.update", <<i, kw>>, ImUpdate(objs[i], kw))

\* The caller builds a dict.
NewDict(d) ==
    /\ Len(objs) < MaxObjs
    /\ Construct("dict", <<>>, Ret([kind |-> "dict", items |-> d]))

\* The caller's objs[i][k] = v on a dict of its own.
DictSetItem(i, k, v) ==
    /\ i \in CallerDicts(objs)
    /\ objs' = [objs EXCEPT ![i].items = [x \in DOMAIN @ \cup {k} |-> IF x = k THEN v ELSE @[x]]]
    /\ last' = Called("dict.__setitem__", Ret("None"))

\* The caller's del objs[i][k] on a dict of its own.
DictDelItem(i, k) ==
    /\ i \in CallerDicts(objs)
    /\ k \in DOMAIN objs[i].items
    /\ objs' = [objs EXCEPT ![i].items = [x \in DOMAIN @ \ {k} |-> @[x]]]
    /\ last' = Called("dict.__delitem__", Ret("None"))

\* The positional arguments of frozendict(...): none, one, or two, each the
\* position of a mapping or 0, a value that is no mapping.
PosArgs ==
    LET A == 0..MaxObjs
    IN  {<<>>} \cup {<<a>> : a \in A} \cup {<<a, 0>> : a \in A}

\* frozendict(*args, **kw)
NewFrozen(args, kw) ==
    /\ Len(objs) < MaxObjs
    /\ \A a \in Range(args) : a = 0 \/ IsMapping(a, objs)
    /\ Construct("frozendict.__init__", <<args, kw>>, FdInit(args, kw, objs))

\* objs[i][key]
GetItem(i, key) ==
    /\ i \in Records(objs) \cup Frozen(objs)
    /\ last' = Called("__getitem__",
                      IF objs[i].kind = "record" THEN ImGetItem(objs[i], key)
                      ELSE FdGetItem(objs[i], key, objs))
    /\ UNCHANGED objs

\* setattr(objs[i], name, value)
SetAttr(i, name, value) ==
    /\ i \in Records(objs) \cup Frozen(objs)
    /\ LET r == IF objs[i].kind = "record" THEN ImSetattr(objs[i], name, value)
                ELSE FdSetattr(objs[i], name, value)
       IN  /\ objs' = [objs EXCEPT ![i] = r.obj]
           /\ last' = Called("__setattr__", r.out)

\* What iter(m), len(m) and repr(m) give for the mapping at position i.
View(i, heap) ==
    IF heap[i].kind = "record"
    THEN <<ImIter(heap[i]), ImLen(heap[i]), ImRepr(heap[i])>>
    ELSE <<FdIter(heap[i]), FdLen(heap[i], heap), FdRepr(heap[i], heap)>>

\* iter(objs[i]), len(objs[i]) and repr(objs[i])
Inspect(i) ==
    /\ i \in Records(objs) \cup Frozen(objs)
    /\ last' = Called("inspect", Ret(View(i, objs)))
    /\ UNCHANGED objs

\* objs[i] == objs[j]
Compare(i, j) ==
    /\ i \in DOMAIN objs
    /\ j \in DOMAIN objs
    /\ last' = Called("==", PyEq(i, j, objs))
    /\ UNCHANGED objs

\* objs[i].__eq__(objs[j]), the method itself
CallEq(i, j) ==
    /\ i \in DOMAIN objs
    /\ j \in DOMAIN objs
    /\ last' = Called("__eq__", MethodEq(i, j, objs))
    /\ UNCHANGED objs

\* hash(objs[i])
Hash(i) ==
    /\ i \in Built(objs)
    /\ last' = Called("hash", PyHash(i, objs))
    /\ UNCHANGED objs

\* cls(key), cls a key wrapper class and key of a class it wraps
WrapKey(cls, key) ==
    /\ Len(objs) < MaxObjs
    /\ key.kcls \in Wraps(cls)
    /\ Construct("ComparableKey.__init__", <<>>, KeyInit(cls, key))

\* ComparableX509(x)
WrapX509(x) ==
    /\ Len(objs) < MaxObjs
    /\ Construct("ComparableX509.__init__", <<>>, X509Init(x))

\* objs[i].public_key()
PublicKey(i) ==
    /\ Len(objs) < MaxObjs
    /\ i \in KeyWrappers(objs)
    /\ \E r \in PublicKeyOutcomes(objs[i]) : Construct("public_key", <<>>, r)

Positions == 1..MaxObjs

\* The names a caller looks up or assigns: a field of every record type, a
\* name no type declares, and a method.
LookupNames == {"typ", "kid", "update"}

\* The calls on records.
NextRecord ==
    \/ \E cls \in RecordTypes, kw \in RecordKwargs : NewRecord(cls, kw)
    \/ \E i \in Positions, kw \in RecordKwargs : Update(i, kw)
    \/ \E i \in Positions, key \in LookupNames : GetItem(i, key)
    \/ \E i \in Positions, name \in LookupNames, value \in Val : SetAttr(i, name, value)
    \/ \E i \in Positions : Inspect(i)
    \/ \E i, j \in Positions : Compare(i, j)
    \/ \E i, j \in Positions : CallEq(i, j)
    \/ \E i \in Positions : Hash(i)

\* Records and frozendicts side by side: built, read, assigned to, compared
\* and hashed.
NextImmutable ==
    \/ \E cls \in RecordTypes, kw \in RecordKwargs : NewRecord(cls, kw)
    \/ \E args \in PosArgs, kw \in DictKwargs : NewFrozen(args, kw)
    \/ \E i \in Positions, key \in LookupNames : GetItem(i, key)
    \/ \E i \in Positions, name \in LookupNames, value \in Val : SetAttr(i, name, value)
    \/ \E i \in Positions : Inspect(i)
    \/ \E i, j \in Positions : Compare(i, j)
    \/ \E i \in Positions : Hash(i)

\* The caller's own dicts, which it may pass to frozendict and change later.
NextCaller ==
    \/ \E d \in Dicts : NewDict(d)
    \/ \E i \in Positions, k \in DictKeys, v \in Val : DictSetItem(i, k, v)
    \/ \E i \in Positions, k \in DictKeys : DictDelItem(i, k)

NextMap == NextImmutable \/ NextCaller

NextWrapper ==
    \/ \E cls \in WrapperClasses, key \in KeyObjects : WrapKey(cls, key)
    \/ \E x \in X509Objects \cup KeyObjects : WrapX509(x)
    \/ \E i \in Positions : PublicKey(i)
    \/ \E i, j \in Positions : Compare(i, j)
    \/ \E i, j \in Positions : CallEq(i, j)
    \/ \E i \in Positions : Hash(i)

Next == NextRecord \/ NextMap \/ NextWrapper

\* Every call of the module.
Spec == Init /\ [][Next]_vars

\* The calls on records alone.
SpecRecord == Init /\ [][NextRecord]_vars

\* The calls on records and frozendicts.
SpecImmutable == Init /\ [][NextImmutable]_vars

\* The calls on records and frozendicts, and the caller's on its dicts.
SpecMap == Init /\ [][NextMap]_vars

\* The calls on the comparable wrappers.
SpecWrapper == Init /\ [][NextWrapper]_vars

-----------------------------------------------------------------------------
(* Properties.                                                             *)

\* The object a constructor call has just appended.
NewObj == objs'[Len(objs')]

\* hash(a) == hash(b), both computed without an exception
SameHash(i, j, heap) ==
    LET a == PyHash(i, heap)
        b == PyHash(j, heap)
    IN  /\ a.exc = "none"
        /\ b.exc = "none"
        /\ a.ret = b.ret

\* C1: for any two values built by this layer, a == b evaluating to true
\* implies hash(a) == hash(b).
C1_EqualValuesHashEqual ==
    \A i \in Built(objs), j \in Built(objs) :
        LET r == PyEq(i, j, objs)
        IN  (r.exc = "none" /\ r.ret = "True") => SameHash(i, j, objs)

\* C2: update(**partial), when it returns, returns a new instance of the
\* receiver's type holding partial's value for every field partial names
\* and the receiver's value for every other field; and no call, update
\* included, changes a field of an instance that exists.
C2_UpdateReplacesAndKeepsReceiver ==
    [][/\ \A i \in DOMAIN objs : objs'[i] = objs[i]
       /\ (last'.op = "ImmutableMap.update" /\ last'.exc = "none") =>
            LET self == objs[last'.args[1]]
                partial == last'.args[2]
            IN  /\ Returned(last', Len(objs) + 1)
                /\ Len(objs') = Len(objs) + 1
                /\ NewObj.kind = "record"
                /\ NewObj.cls = self.cls
                /\ DOMAIN NewObj.vals = Range(Slots(self.cls))
                /\ \A f \in Range(Slots(self.cls)) :
                      NewObj.vals[f] = IF f \in KwNames(partial)
                                       THEN KwGet(partial, f)
                                       ELSE self.vals[f]]_vars

\* C2's case: an update returned an instance that has one field of the
\* receiver replaced and another kept.
C2_Witness ==
    /\ last.op = "ImmutableMap.update"
    /\ last.exc = "none"
    /\ LET self == objs[last.args[1]]
           new == objs[Len(objs)]
       IN  /\ \E f \in DOMAIN new.vals : new.vals[f] # self.vals[f]
           /\ \E f \in DOMAIN new.vals : new.vals[f] = self.vals[f]

\* C3: constructing a record succeeds exactly when the names supplied are
\* the type's schema; otherwise it raises TypeError and no instance comes to
\* be; so every record that exists holds one value per schema field and
\* none for another name.
C3_ConstructionNeedsExactSchema ==
    [][/\ \A i \in Records(objs') :
            objs'[i].vals \in [Range(Slots(objs'[i].cls)) -> Val]
       /\ last'.op = "ImmutableMap.__init__" =>
            LET cls == last'.args[1]
                kwargs == last'.args[2]
            IN  IF KwNames(kwargs) = Range(Slots(cls))
                THEN /\ last'.exc = "none"
                     /\ Len(objs') = Len(objs) + 1
                     /\ NewObj.kind = "record"
                     /\ NewObj.cls = cls
                ELSE /\ last'.exc = "TypeError"
                     /\ objs' = objs]_vars

\* C3's case: a construction was refused while a record exists.
C3_Witness ==
    /\ last.op = "ImmutableMap.__init__"
    /\ last.exc = "TypeError"
    /\ Records(objs) # {}

\* Exactly one source: one positional mapping and no keyword bindings, or
\* keyword bindings and no positional argument.
ExactlyOneSource(args, kw, heap) ==
    \/ Len(args) = 1 /\ IsMapping(args[1], heap) /\ kw = <<>>
    \/ args = <<>> /\ kw # <<>>

\* C4: constructing a frozendict succeeds only with exactly one source;
\* with both a positional mapping and keyword bindings, or with neither, it
\* raises TypeError and no mapping comes to be.
C4_FrozendictOneSource ==
    [][last'.op = "frozendict.__init__" =>
         LET args == last'.args[1]
             kwargs == last'.args[2]
         IN  IF ExactlyOneSource(args, kwargs, objs)
             THEN last'.exc = "none" /\ Len(objs') = Len(objs) + 1
             ELSE last'.exc = "TypeError" /\ objs' = objs]_vars

\* C5: a record's __eq__ with an instance of the same record type returns
\* whether every schema field is equal pairwise; with a value of another
\* type it returns NotImplemented, and == is then never true.
C5_RecordEquality ==
    [][last'.op \in {"__eq__", "=="} =>
         \A i \in Records(objs), j \in DOMAIN objs :
            IF objs[j].kind = "record" /\ objs[j].cls = objs[i].cls
            THEN (CallEq(i, j) \/ Compare(i, j)) =>
                    Returned(last', PyBool(\A f \in Range(Slots(objs[i].cls)) :
                                              objs[i].vals[f] = objs[j].vals[f]))
            ELSE /\ CallEq(i, j) => Returned(last', "NotImplemented")
                 /\ Compare(i, j) => ~Returned(last', "True")]_vars

\* Both operands wrap a key of the same family and of the same kind.
SameFamilyAndKind(a, b) ==
    /\ b.kind = "keywrap"
    /\ a.cls = b.cls
    /\ IsPrivate(a.wrapped.kcls) = IsPrivate(b.wrapped.kcls)

\* C6: ComparableKey.__eq__ never raises; it returns NotImplemented when
\* the other operand is no wrapper of the same family or the keys differ in
\* kind, and otherwise, for every family, whether the two keys' numbers are
\* equal.
C6_KeyEquality ==
    [][last'.op = "__eq__" =>
         \A i \in KeyWrappers(objs), j \in DOMAIN objs :
            CallEq(i, j) =>
                Returned(last', IF SameFamilyAndKind(objs[i], objs[j])
                                THEN PyBool(objs[i].wrapped.num = objs[j].wrapped.num)
                                ELSE "NotImplemented")]_vars

\* C7: public_key() of a wrapper of any family returns a new wrapper of the
\* receiver's class that holds the public key derived from the receiver's
\* key (stated for the receivers that wrap a private key).
C7_PublicKeyWrapsDerivedKey ==
    [][last'.op = "public_key" =>
         \A i \in KeyWrappers(objs) :
            (PublicKey(i) /\ IsPrivate(objs[i].wrapped.kcls)) =>
                /\ last'.exc = "none"
                /\ NewObj.kind = "keywrap"
                /\ NewObj.cls = objs[i].cls
                /\ NewObj.wrapped = DerivedPublicKey(objs[i].wrapped)]_vars

\* C8: an attribute assignment on a record or a frozendict raises
\* AttributeError, the message names the attribute assigned, and no stored
\* value changes.
C8_AssignmentNamesField ==
    [][last'.op = "__setattr__" =>
         \A i \in Positions, name \in LookupNames, value \in Val :
            SetAttr(i, name, value) =>
                /\ last'.exc = "AttributeError"
                /\ name \in Range(last'.msg)
                /\ objs' = objs]_vars

\* C8, amended: an attribute assignment on a record or a frozendict raises
\* AttributeError with the fixed message "can't set attribute", which names
\* no attribute, and no stored value changes.
C8_AssignmentRefused ==
    [][last'.op = "__setattr__" =>
         /\ last'.exc = "AttributeError"
         /\ last'.msg = <<"can't set attribute">>
         /\ objs' = objs]_vars

\* C8's case: an assignment was refused, with a record and a frozendict in
\* the heap.
C8_Witness ==
    /\ last.op = "__setattr__"
    /\ last.exc = "AttributeError"
    /\ Records(objs) # {}
    /\ Frozen(objs) # {}

\* What a caller observes of the frozendict at position i: every lookup,
\* the iteration order, the length, the hash and the repr.
FdObserved(i, heap) ==
    [lookup |-> [k \in FieldNames |-> FdGetItem(heap[i], k, heap)],
     iter |-> FdIter(heap[i]),
     len |-> FdLen(heap[i], heap),
     hash |-> FdHash(heap[i], heap),
     repr |-> FdRepr(heap[i], heap)]

\* C9: whatever is called later, the caller's changes to the mapping it
\* passed included, a frozendict's lookups, iteration order, length, hash
\* and repr stay what they were, and the keys it iterates are the keys a
\* lookup finds.
C9_FrozendictFixed ==
    [][\A i \in Frozen(objs) :
         /\ FdObserved(i, objs') = FdObserved(i, objs)
         /\ Range(FdIter(objs'[i])) =
                {k \in FieldNames : FdGetItem(objs'[i], k, objs').exc = "none"}]_vars

\* C10: record[k] returns the stored value of field k, as attribute access
\* does, and raises KeyError for every k that is no schema field, a method
\* name included.
C10_RecordLookup ==
    [][last'.op = "__getitem__" =>
         \A i \in Records(objs), key \in LookupNames :
            GetItem(i, key) =>
                IF key \in Range(Slots(objs[i].cls))
                THEN Returned(last', objs[i].vals[key])
                ELSE last'.exc = "KeyError"]_vars

====
